---------------------------- MODULE Spec2Model ----------------------------
(***************************************************************************)
(* Quarterly fact reconciliation and period comparison of the EDGAR        *)
(* dashboards: parse_data, build_financial_table and compute_changes of    *)
(* testingClaude.py and of financialData.py / test.py.                     *)
(*                                                                         *)
(* Strings the code takes apart (frame labels) are sequences of one        *)
(* character strings.  Numbers are IEEE doubles modelled as extended       *)
(* rationals n/d: d > 0 a finite value, d = 0 with n = 1 or -1 an          *)
(* infinity, d = 0 with n = 0 the not-a-number pandas treats as null.      *)
(***************************************************************************)
EXTENDS Integers, Sequences, FiniteSets, TLC

\* ------------------------------------------------------------------ bounds

\* Facts per response of the fact source.
MaxFacts == 2

\* Reported values range over 0..MaxVal.
MaxVal == 2

\* ----------------------------------------------------------------- strings

Digits == <<"0", "1", "2", "3", "4", "5", "6", "7", "8", "9">>

IsDigit(c) == \E k \in 1..10 : Digits[k] = c

DigitVal(c) == (CHOOSE k \in 1..10 : Digits[k] = c) - 1

\* s[a:b] of Python, 0-based, b exclusive, clamped to the string.
Slice(s, a, b) ==
    LET hi == IF b < Len(s) THEN b ELSE Len(s)
    IN  IF a >= hi THEN <<>> ELSE SubSeq(s, a + 1, hi)

\* c in s
Contains(s, c) == \E k \in 1..Len(s) : s[k] = c

\* s.startswith(p)
StartsWith(s, p) == Len(s) >= Len(p) /\ SubSeq(s, 1, Len(p)) = p

RECURSIVE DigitsToNat(_)
DigitsToNat(s) ==
    IF s = <<>> THEN 0
    ELSE 10 * DigitsToNat(SubSeq(s, 1, Len(s) - 1)) + DigitVal(s[Len(s)])

\* int(s): ok is FALSE where Python raises ValueError.  Over the characters
\* of the model a literal is an optional sign and one or more digits.
ParseInt(s) ==
    LET neg  == Len(s) > 0 /\ s[1] = "-"
        body == IF neg THEN Tail(s) ELSE s
    IN  IF body # <<>> /\ \A k \in 1..Len(body) : IsDigit(body[k])
        THEN [ok |-> TRUE,
              val |-> IF neg THEN 0 - DigitsToNat(body) ELSE DigitsToNat(body)]
        ELSE [ok |-> FALSE, val |-> 0]

RECURSIVE NatToStr(_)
NatToStr(n) ==
    IF n < 10 THEN <<Digits[n + 1]>>
    ELSE NatToStr(n \div 10) \o <<Digits[(n % 10) + 1]>>

\* str(n) as an f-string formats an int: no padding, a minus sign.
IntToStr(n) == IF n < 0 THEN <<"-">> \o NatToStr(0 - n) ELSE NatToStr(n)

\* ------------------------------------------------------------------ floats

RECURSIVE Gcd(_, _)
Gcd(a, b) == IF b = 0 THEN a ELSE Gcd(b, a % b)

Abs(x) == IF x < 0 THEN 0 - x ELSE x

Sign(x) == IF x < 0 THEN -1 ELSE IF x > 0 THEN 1 ELSE 0

\* The double n/d in lowest terms, the sign in the numerator.
Float(n, d) ==
    IF d = 0 THEN [k |-> "float", n |-> Sign(n), d |-> 0]
    ELSE LET g == Gcd(Abs(n), Abs(d))
         IN  [k |-> "float", n |-> (Sign(d) * n) \div g, d |-> Abs(d) \div g]

FromInt(v) == Float(v, 1)

NaN == Float(0, 0)

\* The string "N/A" of the qoq and yoy series.
NA == [k |-> "N/A", n |-> 0, d |-> 0]

IsNaN(x) == x.k = "float" /\ x.d = 0 /\ x.n = 0

IsInf(x) == x.k = "float" /\ x.d = 0 /\ x.n # 0

IsZero(x) == x.k = "float" /\ x.d # 0 /\ x.n = 0

\* pd.notna
NotNa(x) == ~IsNaN(x)

\* a - b
FSub(a, b) ==
    IF IsNaN(a) \/ IsNaN(b) THEN NaN
    ELSE IF IsInf(a) /\ IsInf(b) THEN (IF a.n = b.n THEN NaN ELSE a)
    ELSE IF IsInf(a) THEN a
    ELSE IF IsInf(b) THEN Float(0 - b.n, 0)
    ELSE Float(a.n * b.d - b.n * a.d, a.d * b.d)

\* a / b of a float column: a zero divisor gives an infinity or a NaN with a
\* warning, never an exception.
FDiv(a, b) ==
    IF IsNaN(a) \/ IsNaN(b) THEN NaN
    ELSE IF IsInf(a) /\ IsInf(b) THEN NaN
    ELSE IF IsInf(a) THEN Float(a.n * (IF b.n < 0 THEN -1 ELSE 1), 0)
    ELSE IF IsInf(b) THEN Float(0, 1)
    ELSE IF b.n = 0 THEN Float(a.n, 0)
    ELSE Float(a.n * b.d, a.d * b.n)


\* ------------------------------------------------------------ the programs

\* The scripts with a build_financial_table and a compute_changes:
\* testingClaude.py, financialData.py, and test.py, which repeats the two
\* functions of financialData.py and goes on to the charts.
Apps == {"testingClaude", "financialData", "test"}

\* full_tags / TAGS, in insertion order.
Labels == <<"Revenue", "Gross Profit", "Net Income", "Cash Flow">>

\* The candidate metric columns of compute_changes, in order.
AllMetricCols ==
    <<"Revenue", "Gross Profit", "Net Income", "Cash Flow", "Gross Margin">>

ValueCols == {AllMetricCols[k] : k \in 1..Len(AllMetricCols)}

\* A row of a DataFrame: the merge keys and one cell per value column, NaN
\* where the column is absent or the cell is null.
NoCells == [c \in ValueCols |-> NaN]

\* pd.DataFrame()
EmptyFrame == [cols |-> {}, rows |-> <<>>]

\* pd.to_datetime of an ISO date <<year, month, day>>: an instant, ordered
\* as the dates are.
ToDatetime(e) == e[1] * 10000 + e[2] * 100 + e[3]

\* fetch_sec_data of financialData.py and test.py: nothing is caught, so an
\* exception of requests.get or of r.json() leaves the function.
FetchSecDataUncaught(src, label) ==
    LET r == src[label]
    IN  IF r.raises
        THEN [raised |-> "ConnectionError", none |-> TRUE, usd |-> <<>>]
        ELSE IF r.status # 200
        THEN [raised |-> "", none |-> TRUE, usd |-> <<>>]
        ELSE IF ~r.json
        THEN [raised |-> "JSONDecodeError", none |-> TRUE, usd |-> <<>>]
        ELSE [raised |-> "", none |-> FALSE, usd |-> r.usd]

\* fetch_sec_data of testingClaude.py: the parsed body on status 200, None
\* on another status and on every exception.
FetchSecDataCaught(src, label) ==
    LET r == src[label]
    IN  IF ~r.raises /\ r.status = 200 /\ r.json
        THEN [raised |-> "", none |-> FALSE, usd |-> r.usd]
        ELSE [raised |-> "", none |-> TRUE, usd |-> <<>>]

\* fetch_sec_data of script a.  usd is the list json_data["units"]["USD"].
fetch_sec_data(a, src, label) ==
    IF a = "testingClaude" THEN FetchSecDataCaught(src, label)
    ELSE FetchSecDataUncaught(src, label)

\* The records loop of parse_data: an entry is kept when it has a frame and
\* the frame contains the letter Q.
RECURSIVE ParseRecords(_)
ParseRecords(usd) ==
    IF usd = <<>> THEN <<>>
    ELSE LET entry == Head(usd)
             frame == entry.frame
         IN  (IF frame # <<>> /\ Contains(frame, "Q")
              THEN <<[date |-> entry.end, val |-> entry.val, frame |-> frame]>>
              ELSE <<>>) \o ParseRecords(Tail(usd))

\* Insert r into rows (sorted by date, descending) after the rows of the
\* same date: a stable sort.
RECURSIVE InsertByDate(_, _)
InsertByDate(r, rows) ==
    IF rows = <<>> THEN <<r>>
    ELSE IF Head(rows).date >= r.date
         THEN <<Head(rows)>> \o InsertByDate(r, Tail(rows))
         ELSE <<r>> \o rows

RECURSIVE SortByDateDesc(_)
SortByDateDesc(rows) ==
    IF rows = <<>> THEN <<>>
    ELSE InsertByDate(rows[Len(rows)],
                      SortByDateDesc(SubSeq(rows, 1, Len(rows) - 1)))

\* parse_data: the kept records with the date converted, sorted by date
\* descending.  The order among equal dates is not observable: every reader
\* of a parsed frame merges it and sorts the result again (SortOutcomes).
parse_data(usd) ==
    LET recs == ParseRecords(usd)
    IN  SortByDateDesc([k \in 1..Len(recs) |->
                          [recs[k] EXCEPT !.date = ToDatetime(recs[k].date)]])

\* df.rename(columns={"val": label}) and df[["date", "frame", label]].
Subset(df, label) ==
    [k \in 1..Len(df) |->
        [date |-> df[k].date, frame |-> df[k].frame,
         cells |-> [NoCells EXCEPT ![label] = FromInt(df[k].val)]]]

SameKey(a, b) == a.date = b.date /\ a.frame = b.frame

RECURSIVE Matches(_, _)
Matches(l, right) ==
    IF right = <<>> THEN <<>>
    ELSE (IF SameKey(l, Head(right)) THEN <<Head(right)>> ELSE <<>>)
         \o Matches(l, Tail(right))

\* The rows one left row gives: one per right row of its key, or itself
\* with a null in the new column.
RECURSIVE Joined(_, _, _)
Joined(left, right, label) ==
    IF left = <<>> THEN <<>>
    ELSE LET l == Head(left)
             m == Matches(l, right)
         IN  (IF m = <<>> THEN <<l>>
              ELSE [k \in 1..Len(m) |->
                      [l EXCEPT !.cells[label] = m[k].cells[label]]])
             \o Joined(Tail(left), right, label)

RECURSIVE RightOnly(_, _)
RightOnly(left, right) ==
    IF right = <<>> THEN <<>>
    ELSE (IF Matches(Head(right), left) = <<>> THEN <<Head(right)>> ELSE <<>>)
         \o RightOnly(left, Tail(right))

\* Merge as a left join: the rows of the new metric with no partner are
\* lost.
MergeLeft(frame, sub, label) ==
    [cols |-> frame.cols \cup {label},
     rows |-> Joined(frame.rows, sub, label)]

\* pd.merge(all_data, df_subset, on=["date", "frame"], how="outer")
Merge(frame, sub, label) ==
    [cols |-> frame.cols \cup {label},
     rows |-> Joined(frame.rows, sub, label) \o RightOnly(frame.rows, sub)]

\* The loop over the metrics of full_tags, from the k-th on, in script a,
\* when no fetch raises.
RECURSIVE MergeFrom(_, _, _, _, _)
MergeFrom(a, src, full_tags, k, frame) ==
    IF k > Len(full_tags) THEN frame
    ELSE LET label     == full_tags[k]
             json_data == fetch_sec_data(a, src, label)
             df        == parse_data(json_data.usd)
             sub       == Subset(df, label)
         IN  MergeFrom(a, src, full_tags, k + 1,
                 IF ~json_data.none /\ df # <<>>
                 THEN (IF frame.rows = <<>>
                       THEN [cols |-> {label}, rows |-> sub]
                       ELSE Merge(frame, sub, label))
                 ELSE frame)

\* The exception of the first fetch of the loop that raises, "" if none
\* does: it ends build_financial_table.
RECURSIVE FetchError(_, _, _, _)
FetchError(a, src, full_tags, k) ==
    IF k > Len(full_tags) THEN ""
    ELSE LET json_data == fetch_sec_data(a, src, full_tags[k])
         IN  IF json_data.raised # "" THEN json_data.raised
             ELSE FetchError(a, src, full_tags, k + 1)

\* seq without its k-th element
RemoveAt(seq, k) == SubSeq(seq, 1, k - 1) \o SubSeq(seq, k + 1, Len(seq))

\* SortOutcomes with the dates ascending.
RECURSIVE SortOutcomesAscending(_)
SortOutcomesAscending(rows) ==
    IF rows = <<>> THEN {<<>>}
    ELSE UNION {
           {<<rows[k]>> \o rest :
                rest \in SortOutcomesAscending(RemoveAt(rows, k))} :
           k \in {j \in 1..Len(rows) :
                    \A m \in 1..Len(rows) : rows[m].date >= rows[j].date}}

\* sort_values(by="date", ascending=False) with the default, unstable sort:
\* every order of the rows with the dates descending, the rows of one date
\* in any order.
RECURSIVE SortOutcomes(_)
SortOutcomes(rows) ==
    IF rows = <<>> THEN {<<>>}
    ELSE UNION {
           {<<rows[k]>> \o rest : rest \in SortOutcomes(RemoveAt(rows, k))} :
           k \in {j \in 1..Len(rows) :
                    \A m \in 1..Len(rows) : rows[m].date <= rows[j].date}}

\* dropna(subset=[col])
RECURSIVE DropNa(_, _)
DropNa(rows, col) ==
    IF rows = <<>> THEN <<>>
    ELSE (IF NotNa(Head(rows).cells[col]) THEN <<Head(rows)>> ELSE <<>>)
         \o DropNa(Tail(rows), col)

\* all_data["Gross Margin"] = all_data["Gross Profit"] / all_data["Revenue"]
WithGrossMargin(rows) ==
    [k \in 1..Len(rows) |->
        [rows[k] EXCEPT !.cells["Gross Margin"] =
            FDiv(rows[k].cells["Gross Profit"], rows[k].cells["Revenue"])]]

\* DropDuplicates on the merge keys, period end and frame, instead of the
\* frame alone.
RECURSIVE DropDuplicatesByKey(_, _)
DropDuplicatesByKey(rows, seen) ==
    IF rows = <<>> THEN <<>>
    ELSE LET key == <<Head(rows).date, Head(rows).frame>>
         IN  IF key \in seen THEN DropDuplicatesByKey(Tail(rows), seen)
             ELSE <<Head(rows)>>
                  \o DropDuplicatesByKey(Tail(rows), seen \cup {key})

\* drop_duplicates(subset=["Quarter"], keep="first"); Quarter is the frame.
RECURSIVE DropDuplicates(_, _)
DropDuplicates(rows, seen) ==
    IF rows = <<>> THEN <<>>
    ELSE IF Head(rows).frame \in seen THEN DropDuplicates(Tail(rows), seen)
    ELSE <<Head(rows)>>
         \o DropDuplicates(Tail(rows), seen \cup {Head(rows).frame})

\* FinishTestingClaude dropping the rows with a null Gross Profit without
\* looking for the column first.
FinishTestingClaudeUnconditionalDrop(cols, sorted) ==
    IF "Revenue" \notin cols
    THEN [raised |-> "KeyError", table |-> EmptyFrame]
    ELSE [raised |-> "",
          table |-> [cols |-> cols \cup {"Gross Margin"},
                     rows |-> DropDuplicates(
                         WithGrossMargin(
                             DropNa(DropNa(sorted, "Revenue"), "Gross Profit")),
                         {})]]

\* The end of build_financial_table of testingClaude.py, the merged rows
\* sorted: raised names the exception that leaves the function, if any.
FinishTestingClaude(cols, sorted) ==
    IF "Revenue" \notin cols
    THEN [raised |-> "KeyError", table |-> EmptyFrame]
    ELSE LET kept == DropNa(sorted, "Revenue")
         IN  IF "Gross Profit" \in cols
             THEN [raised |-> "",
                   table |-> [cols |-> cols \cup {"Gross Margin"},
                              rows |-> DropDuplicates(
                                  WithGrossMargin(DropNa(kept, "Gross Profit")),
                                  {})]]
             ELSE [raised |-> "",
                   table |-> [cols |-> cols,
                              rows |-> DropDuplicates(kept, {})]]

\* The end of build_financial_table of financialData.py and test.py.
FinishFinancialData(cols, sorted) ==
    IF "Revenue" \notin cols \/ "Gross Profit" \notin cols
    THEN [raised |-> "KeyError", table |-> EmptyFrame]
    ELSE [raised |-> "",
          table |-> [cols |-> cols \cup {"Gross Margin"},
                     rows |-> WithGrossMargin(DropDuplicates(
                         DropNa(DropNa(sorted, "Revenue"), "Gross Profit"),
                         {}))]]


\* --------------------------------------------------------- compute_changes

\* f"CY{year}Q{quarter}"
FrameLabel(year, quarter) ==
    <<"C", "Y">> \o IntToStr(year) \o <<"Q">> \o IntToStr(quarter)

\* PrevQuarterFrame without the step back to the fourth quarter.
PrevQuarterFrameNoWrap(year, quarter) == FrameLabel(year, quarter - 1)

\* prev_quarter_frame
PrevQuarterFrame(year, quarter) ==
    IF quarter > 1 THEN FrameLabel(year, quarter - 1)
    ELSE FrameLabel(year - 1, 4)

\* PrevYearFrame staying in the selected year.
PrevYearFrameSameYear(year, quarter) == FrameLabel(year, quarter)

\* prev_year_frame
PrevYearFrame(year, quarter) == FrameLabel(year - 1, quarter)

\* RowsOf matching the rows whose label starts with the given one.
RECURSIVE RowsOfPrefix(_, _)
RowsOfPrefix(rows, label) ==
    IF rows = <<>> THEN <<>>
    ELSE (IF StartsWith(Head(rows).frame, label) THEN <<Head(rows)>>
          ELSE <<>>)
         \o RowsOfPrefix(Tail(rows), label)

\* df[df['Quarter'] == label]
RECURSIVE RowsOf(_, _)
RowsOf(rows, label) ==
    IF rows = <<>> THEN <<>>
    ELSE (IF Head(rows).frame = label THEN <<Head(rows)>> ELSE <<>>)
         \o RowsOf(Tail(rows), label)

\* Change without the test for a zero previous value.
ChangeWithoutZeroGuard(cur, prev) ==
    IF NotNa(cur) /\ NotNa(prev)
    THEN FDiv(FSub(cur, prev), prev)
    ELSE NA

\* Change as a percentage.
ChangeInPercent(cur, prev) ==
    IF NotNa(cur) /\ NotNa(prev) /\ ~IsZero(prev)
    THEN FDiv(FDiv(FSub(cur, prev), prev), Float(1, 100))
    ELSE NA

\* One entry of the qoq / yoy loop: the ratio when the current and the
\* previous value are both non-null and the previous one is not zero, and
\* the initial "N/A" otherwise.
Change(cur, prev) ==
    IF NotNa(cur) /\ NotNa(prev) /\ ~IsZero(prev)
    THEN FDiv(FSub(cur, prev), prev)
    ELSE NA

\* The qoq / yoy series against the rows of the baseline frame.
ChangesAgainst(cols, current, prev_rows) ==
    IF prev_rows = <<>> THEN [c \in cols |-> NA]
    ELSE [c \in cols |-> Change(current[c], prev_rows[1].cells[c])]

\* The metric columns compute_changes reads: testingClaude.py keeps the
\* candidates the frame has, financialData.py and test.py take them all.
MetricCols(app, df) ==
    IF app = "testingClaude" THEN ValueCols \cap df.cols ELSE ValueCols

NoChanges ==
    [raised |-> "", cols |-> {}, current |-> [c \in {} |-> NaN],
     qoq |-> [c \in {} |-> NA], yoy |-> [c \in {} |-> NA],
     parsed |-> FALSE, prev_quarter_frame |-> <<>>, prev_year_frame |-> <<>>]

\* compute_changes(df, selected_quarter): what it returns, or the exception
\* it raises.  parsed tells whether the try block ran to its end, and the
\* two frames are its locals.
compute_changes(app, df, selected_quarter) ==
    LET metric_cols == MetricCols(app, df)
        current_row == RowsOf(df.rows, selected_quarter)
        current     == [c \in metric_cols |-> current_row[1].cells[c]]
        year        == ParseInt(Slice(selected_quarter, 2, 6))
        quarter     == ParseInt(<<selected_quarter[Len(selected_quarter)]>>)
        pqf         == PrevQuarterFrame(year.val, quarter.val)
        pyf         == PrevYearFrame(year.val, quarter.val)
    IN  IF current_row = <<>>
        THEN [NoChanges EXCEPT !.raised = "ValueError"]
        ELSE IF ~(metric_cols \subseteq df.cols)
        THEN [NoChanges EXCEPT !.raised = "KeyError"]
        ELSE IF StartsWith(selected_quarter, <<"C", "Y">>)
                /\ Contains(selected_quarter, "Q")
                /\ year.ok /\ quarter.ok
        THEN [raised |-> "", cols |-> metric_cols, current |-> current,
              qoq |-> ChangesAgainst(metric_cols, current,
                                     RowsOf(df.rows, pqf)),
              yoy |-> ChangesAgainst(metric_cols, current,
                                     RowsOf(df.rows, pyf)),
              parsed |-> TRUE,
              prev_quarter_frame |-> pqf, prev_year_frame |-> pyf]
        ELSE [raised |-> "", cols |-> metric_cols, current |-> current,
              qoq |-> [c \in metric_cols |-> NA],
              yoy |-> [c \in metric_cols |-> NA],
              parsed |-> FALSE,
              prev_quarter_frame |-> <<>>, prev_year_frame |-> <<>>]


\* compute_changes keeping in df the rows of the selected quarter only.
ComputeChangesFrameSelected(app, df, selected_quarter) ==
    [df EXCEPT !.rows = RowsOf(df.rows, selected_quarter)]

\* The frame compute_changes was given, after the call: every statement of
\* the function reads df or writes to a frame or a series of its own
\* (current_row, current, qoq, yoy), in the three scripts.
ComputeChangesFrame(app, df, selected_quarter) == df

\* ------------------------------------------------------- the fact source

\* Frame labels of the source: calendar quarters, and the labels the source
\* also assigns (an instant frame, an annual frame, none) or could assign (a
\* quarter digit outside 1..4).
CY2019Q3 == <<"C", "Y", "2", "0", "1", "9", "Q", "3">>
CY2019Q4 == <<"C", "Y", "2", "0", "1", "9", "Q", "4">>
CY2020Q1 == <<"C", "Y", "2", "0", "2", "0", "Q", "1">>
CY2020Q3 == <<"C", "Y", "2", "0", "2", "0", "Q", "3">>
CY2020Q0 == <<"C", "Y", "2", "0", "2", "0", "Q", "0">>
CY2019Q4I == <<"C", "Y", "2", "0", "1", "9", "Q", "4", "I">>
CY2019 == <<"C", "Y", "2", "0", "1", "9">>
NoFrame == <<>>

QuarterFrames == <<CY2019Q3, CY2019Q4, CY2020Q1, CY2020Q3>>

AllFrames ==
    <<CY2019Q3, CY2019Q4, CY2020Q1, CY2020Q3, CY2020Q0, CY2019Q4I, CY2019,
      NoFrame>>

FrameSet == {AllFrames[k] : k \in 1..Len(AllFrames)}

\* The period end the source reports with a frame.
EndOf(frame) ==
    CASE frame = CY2019Q3 -> <<2019, 9, 30>>
      [] frame = CY2019Q4 -> <<2019, 12, 31>>
      [] frame = CY2020Q1 -> <<2020, 3, 31>>
      [] frame = CY2020Q3 -> <<2020, 9, 30>>
      [] frame = CY2020Q0 -> <<2020, 1, 15>>
      [] frame = CY2019Q4I -> <<2019, 12, 31>>
      [] frame = CY2019 -> <<2019, 12, 31>>
      [] OTHER -> <<2019, 6, 30>>

\* Two filing dates, and a period end a restated quarter may carry.
FiledFirst == <<2020, 2, 1>>
FiledLater == <<2020, 8, 1>>
RestatedEnd == <<2019, 12, 28>>

Fact(frame, end, val, filed) ==
    [end |-> end, val |-> val, filed |-> filed, frame |-> frame]

\* The answers of the fact source: raises tells that requests.get raised,
\* json that the body parses.
Ok(usd) == [raises |-> FALSE, status |-> 200, json |-> TRUE, usd |-> usd]

NotFound == [raises |-> FALSE, status |-> 404, json |-> FALSE, usd |-> <<>>]

NotJson == [raises |-> FALSE, status |-> 200, json |-> FALSE, usd |-> <<>>]

TransportError ==
    [raises |-> TRUE, status |-> 404, json |-> FALSE, usd |-> <<>>]

\* Sequences of at most n elements of S.
SeqsUpTo(S, n) == UNION {[1..m -> S] : m \in 0..n}

\* One fact per distinct (period end, frame) of usd, of value val: another
\* metric reported for the same periods.
RECURSIVE SamePeriods(_, _, _)
SamePeriods(usd, val, seen) ==
    IF usd = <<>> THEN <<>>
    ELSE LET key == <<Head(usd).end, Head(usd).frame>>
         IN  (IF key \in seen THEN <<>>
              ELSE <<Fact(Head(usd).frame, Head(usd).end, val, FiledFirst)>>)
             \o SamePeriods(Tail(usd), val, seen \cup {key})

Source(rev, gp, ni, cf) ==
    [l \in {Labels[k] : k \in 1..Len(Labels)} |->
        CASE l = "Revenue" -> rev
          [] l = "Gross Profit" -> gp
          [] l = "Net Income" -> ni
          [] OTHER -> cf]

\* Sources that vary the frame labels: up to MaxFacts Revenue facts over
\* every label, each label with its own value, the other metrics either
\* not found or reported for the same periods.
LabelFacts ==
    {Fact(AllFrames[k], EndOf(AllFrames[k]), k, FiledFirst) :
        k \in 1..Len(AllFrames)}

LabelSources ==
    {Source(Ok(usd), NotFound, NotFound, NotFound) :
        usd \in SeqsUpTo(LabelFacts, MaxFacts)}
    \cup
    {Source(Ok(usd), Ok(SamePeriods(usd, 1, {})), Ok(SamePeriods(usd, 1, {})),
            Ok(SamePeriods(usd, 1, {}))) :
        usd \in SeqsUpTo(LabelFacts, MaxFacts)}

\* Sources that vary the values: a quarter and its baseline (the quarter
\* before it, or the same quarter of the year before), each metric reporting
\* a value in 0..MaxVal or nothing for each of the two.
ValueResponses(base, quarter) ==
    {Ok(<<>>)}
    \cup {Ok(<<Fact(f, EndOf(f), v, FiledFirst)>>) :
            f \in {base, quarter}, v \in 0..MaxVal}
    \cup {Ok(<<Fact(base, EndOf(base), v, FiledFirst),
               Fact(quarter, EndOf(quarter), w, FiledFirst)>>) :
            v \in 0..MaxVal, w \in 0..MaxVal}

\* Revenue varies with Gross Profit, the other two metrics not found or
\* reported for the periods of Revenue; and Revenue varies with Net Income
\* and Cash Flow, Gross Profit not found or reported for the periods of
\* Revenue.
ValueSourcesOf(base, quarter) ==
    {Source(rev, gp, other, other) :
        rev \in ValueResponses(base, quarter),
        gp \in ValueResponses(base, quarter) \cup {NotFound},
        other \in {NotFound}}
    \cup
    {Source(rev, gp, Ok(SamePeriods(rev.usd, 1, {})),
            Ok(SamePeriods(rev.usd, 1, {}))) :
        rev \in ValueResponses(base, quarter),
        gp \in ValueResponses(base, quarter) \cup {NotFound}}
    \cup
    {Source(rev, gp, ni, ni) :
        rev \in ValueResponses(base, quarter),
        gp \in {NotFound},
        ni \in ValueResponses(base, quarter) \cup {NotFound}}
    \cup
    {Source(rev, Ok(SamePeriods(rev.usd, 1, {})), ni, ni) :
        rev \in ValueResponses(base, quarter),
        ni \in ValueResponses(base, quarter) \cup {NotFound}}

ValueSources ==
    ValueSourcesOf(CY2019Q4, CY2020Q1) \cup ValueSourcesOf(CY2019Q3, CY2020Q3)

\* Sources that restate a quarter: up to MaxFacts Revenue facts of one
\* frame, differing in period end, value and filing date.
RestatedFacts ==
    {Fact(CY2019Q4, e, v, f) :
        e \in {EndOf(CY2019Q4), RestatedEnd}, v \in 1..MaxVal,
        f \in {FiledFirst, FiledLater}}

RestatedSources ==
    {Source(Ok(usd), NotFound, NotFound, NotFound) :
        usd \in SeqsUpTo(RestatedFacts, MaxFacts)}
    \cup
    {Source(Ok(usd), Ok(SamePeriods(usd, 1, {})), Ok(SamePeriods(usd, 1, {})),
            Ok(SamePeriods(usd, 1, {}))) :
        usd \in SeqsUpTo(RestatedFacts, MaxFacts)}

\* Sources that report a quarter twice in two metrics: Revenue and Gross
\* Profit each hold two facts of one frame, with equal or different period
\* ends.
DuplicatedSources ==
    {Source(Ok(<<Fact(CY2019Q4, e1, v1, FiledFirst),
                 Fact(CY2019Q4, e2, v2, FiledLater)>>),
            Ok(<<Fact(CY2019Q4, e1, w1, FiledFirst),
                 Fact(CY2019Q4, e2, w2, FiledLater)>>),
            NotFound, NotFound) :
        e1 \in {EndOf(CY2019Q4), RestatedEnd},
        e2 \in {EndOf(CY2019Q4), RestatedEnd},
        v1 \in 1..MaxVal, v2 \in 1..MaxVal,
        w1 \in 1..MaxVal, w2 \in 1..MaxVal}

\* Sources whose fetches fail: each metric answers with one fact of a
\* quarter or fails in one of the three ways.
FailingResponses ==
    {Ok(<<Fact(CY2020Q1, EndOf(CY2020Q1), 1, FiledFirst)>>), NotFound,
     NotJson, TransportError}

FailingSources ==
    {Source(rev, gp, ni, cf) :
        rev \in FailingResponses, gp \in FailingResponses,
        ni \in FailingResponses, cf \in FailingResponses}

\* Sources with rows for every step of the table to remove: Revenue
\* reports a quarter and, with two period ends, the quarter before it, in
\* any order; Gross Profit is not found or reported for the periods of
\* Revenue; Net Income is not found or reported for a quarter Revenue does
\* not report.
MixedFacts ==
    <<Fact(CY2020Q1, EndOf(CY2020Q1), 2, FiledFirst),
      Fact(CY2019Q4, EndOf(CY2019Q4), 1, FiledFirst),
      Fact(CY2019Q4, RestatedEnd, 1, FiledLater)>>

MixedSources ==
    {Source(Ok(usd), gp, ni, NotFound) :
        usd \in {u \in [1..3 -> {MixedFacts[k] : k \in 1..3}] :
                    \A i, j \in 1..3 : u[i] = u[j] => i = j},
        gp \in {NotFound, Ok(SamePeriods(MixedFacts, 1, {}))},
        ni \in {NotFound,
                 Ok(<<Fact(CY2019Q3, EndOf(CY2019Q3), 1, FiledFirst)>>)}}

Sources ==
    LabelSources \cup ValueSources \cup RestatedSources \cup FailingSources
    \cup DuplicatedSources \cup MixedSources

\* --------------------------------------------------------- the tag resolver

\* company_revenue_preferences of testingClaude.py, in insertion order.
PreferenceKeys ==
    <<"Intel", "Texas Instruments", "Apple", "Microsoft", "Google",
      "Alphabet", "Amazon", "Tesla", "NVIDIA">>

company_revenue_preferences ==
    [c \in {PreferenceKeys[k] : k \in 1..Len(PreferenceKeys)} |->
        CASE c = "Intel" ->
               <<"RevenueFromContractWithCustomerExcludingAssessedTax">>
          [] c = "Texas Instruments" ->
               <<"RevenueFromContractWithCustomerExcludingAssessedTax",
                 "SalesRevenueNet">>
          [] c = "Apple" -> <<"SalesRevenueNet">>
          [] c = "Microsoft" -> <<"SalesRevenueNet">>
          [] c = "Google" -> <<"Revenues">>
          [] c = "Alphabet" -> <<"Revenues">>
          [] c = "Amazon" -> <<"SalesRevenueNet">>
          [] c = "Tesla" -> <<"SalesRevenueNet">>
          [] OTHER ->
               <<"RevenueFromContractWithCustomerExcludingAssessedTax">>]

default_revenue_tags ==
    <<"RevenueFromContractWithCustomerExcludingAssessedTax",
      "SalesRevenueNet", "Revenues", "SalesRevenueGoodsNet",
      "SalesRevenueServicesNet">>

\* The final fallback of get_revenue_tag_for_company.
FinalFallback == "SalesRevenueNet"

\* The companies of the quick selector: some have preferences, some none.
default_companies ==
    {"Intel", "Texas Instruments", "Apple Inc.",
     "Hon Hai Precision Ind. Co., Ltd.", "Marvell Technology, Inc.",
     "Tesla", "Amazon", "Google"}

\* What a request to the company-concept endpoint can give: status 200 with
\* a JSON body, status 200 with a body that is not JSON, another status, or
\* an exception of the transport.
ProbeOutcomes == {"json", "not_json", "status", "exception"}

\* Candidates with the global fallback tags tried before the preferences.
CandidatesDefaultsFirst(company_name) ==
    default_revenue_tags \o
    (IF company_name \in DOMAIN company_revenue_preferences
     THEN company_revenue_preferences[company_name]
     ELSE <<>>)

\* The tags get_revenue_tag_for_company tests, in the order of its two
\* loops.
Candidates(company_name) ==
    (IF company_name \in DOMAIN company_revenue_preferences
     THEN company_revenue_preferences[company_name]
     ELSE <<>>)
    \o default_revenue_tags

\* test_tag_availability without its try / except.
TestTagAvailabilityUncaught(outcome) ==
    IF outcome = "exception" THEN [raised |-> TRUE, available |-> FALSE]
    ELSE [raised |-> FALSE, available |-> outcome \in {"json", "not_json"}]

\* test_tag_availability: the status of the response is 200; the body is
\* not read, and every exception gives False.
test_tag_availability(outcome) ==
    [raised |-> FALSE, available |-> outcome \in {"json", "not_json"}]


\* ---------------------------------------------------- the company directory

UpperCase ==
    <<"A", "B", "C", "D", "E", "F", "G", "H", "I", "J", "K", "L", "M",
      "N", "O", "P", "Q", "R", "S", "T", "U", "V", "W", "X", "Y", "Z">>

LowerCase ==
    <<"a", "b", "c", "d", "e", "f", "g", "h", "i", "j", "k", "l", "m",
      "n", "o", "p", "q", "r", "s", "t", "u", "v", "w", "x", "y", "z">>

\* The characters of the names, in the order of their code points.
CodePoints == <<" ">> \o UpperCase \o LowerCase

CodePoint(c) == CHOOSE k \in 1..Len(CodePoints) : CodePoints[k] = c

\* s.lower()
Lower(s) ==
    [k \in 1..Len(s) |->
        IF \E j \in 1..Len(UpperCase) : UpperCase[j] = s[k]
        THEN LowerCase[CHOOSE j \in 1..Len(UpperCase) : UpperCase[j] = s[k]]
        ELSE s[k]]

\* p in s, of two strings
IsSubstring(p, s) ==
    \E i \in 0..(Len(s) - Len(p)) : SubSeq(s, i + 1, i + Len(p)) = p

\* a <= b, of two strings
RECURSIVE StrLeq(_, _)
StrLeq(a, b) ==
    IF a = <<>> THEN TRUE
    ELSE IF b = <<>> THEN FALSE
    ELSE IF a[1] = b[1] THEN StrLeq(Tail(a), Tail(b))
    ELSE CodePoint(a[1]) < CodePoint(b[1])

\* s.zfill(width) of a string of digits
RECURSIVE Zfill(_, _)
Zfill(str, width) ==
    IF Len(str) >= width THEN str ELSE Zfill(<<"0">> \o str, width)

\* An Optional[str]: None, or a string.
None == [none |-> TRUE, id |-> <<>>]

Some(str) == [none |-> FALSE, id |-> str]

\* Titles of the directory and the names companies are asked for by.
INTEL_CORP == <<"I", "N", "T", "E", "L", " ", "C", "O", "R", "P">>

TEXAS_INSTRUMENTS_INC ==
    <<"T", "E", "X", "A", "S", " ", "I", "N", "S", "T", "R", "U", "M", "E",
      "N", "T", "S", " ", "I", "N", "C">>

Intel == <<"I", "n", "t", "e", "l">>

Texas_Instruments ==
    <<"T", "e", "x", "a", "s", " ", "I", "n", "s", "t", "r", "u", "m", "e",
      "n", "t", "s">>

Nokia == <<"N", "o", "k", "i", "a">>

CompanyNames == {Intel, INTEL_CORP, Texas_Instruments, Nokia}

\* An entry of company_tickers.json.
Entry(title, ticker, cik_str) ==
    [title |-> title, ticker |-> ticker, cik_str |-> cik_str]

\* What the directory can answer: a listing, the same companies listed in
\* another order with another identifier, an empty listing, an error status,
\* a body that is not JSON, or an exception of the transport.
Listing(entries) ==
    [raises |-> FALSE, status |-> 200, json |-> TRUE, entries |-> entries]

DirectoryAnswers ==
    {Listing(<<Entry(INTEL_CORP, "INTC", 50863),
               Entry(TEXAS_INSTRUMENTS_INC, "TXN", 97476)>>),
     Listing(<<Entry(TEXAS_INSTRUMENTS_INC, "TXN", 97476),
               Entry(INTEL_CORP, "INTC", 50864)>>),
     Listing(<<>>),
     [raises |-> FALSE, status |-> 403, json |-> FALSE, entries |-> <<>>],
     [raises |-> FALSE, status |-> 200, json |-> FALSE, entries |-> <<>>],
     [raises |-> TRUE, status |-> 403, json |-> FALSE, entries |-> <<>>]}

\* str(entry['cik_str']).zfill(10)
CikOf(entry) == Zfill(IntToStr(entry.cik_str), 10)

\* companies.sort(key=lambda x: x['name']): a stable sort.
RECURSIVE InsertByName(_, _)
InsertByName(c, companies) ==
    IF companies = <<>> THEN <<c>>
    ELSE IF StrLeq(Head(companies).name, c.name)
         THEN <<Head(companies)>> \o InsertByName(c, Tail(companies))
         ELSE <<c>> \o companies

RECURSIVE SortByName(_)
SortByName(companies) ==
    IF companies = <<>> THEN <<>>
    ELSE InsertByName(companies[Len(companies)],
                      SortByName(SubSeq(companies, 1, Len(companies) - 1)))

\* company_list_cache before the first load.
NoList == [none |-> TRUE, list |-> <<>>]

\* get_company_list of testingClaude.py: the cached list, or the listing of
\* the directory sorted by name and cached, or [] when the request fails.
get_company_list(cache, answer) ==
    IF ~cache.none
    THEN [cache |-> cache, companies |-> cache.list, requests |-> 0,
          loaded |-> FALSE]
    ELSE IF ~answer.raises /\ answer.status = 200 /\ answer.json
    THEN LET companies ==
               SortByName([k \in 1..Len(answer.entries) |->
                   [name |-> answer.entries[k].title,
                    ticker |-> answer.entries[k].ticker,
                    cik |-> CikOf(answer.entries[k])]])
         IN  [cache |-> [none |-> FALSE, list |-> companies],
              companies |-> companies, requests |-> 1, loaded |-> TRUE]
    ELSE [cache |-> cache, companies |-> <<>>, requests |-> 1,
          loaded |-> FALSE]

\* The first company of the list with exactly this name.
ExactMatches(companies, name) ==
    {k \in 1..Len(companies) : companies[k].name = name}

\* The first entry of the listing whose title contains the name, whatever
\* the case of the letters.
PartialMatches(entries, name) ==
    {k \in 1..Len(entries) : IsSubstring(Lower(name), Lower(entries[k].title))}

First(ks) == CHOOSE k \in ks : \A j \in ks : k <= j

\* The lookup of get_company_cik after a miss of cik_cache, in the fetcher
\* of script kind: what it returns, the two caches after it and the
\* requests it made to the directory.
LookUp(kind, cache, list_cache, name, answer) ==
    IF kind = "testingClaude"
    THEN LET l  == get_company_list(list_cache, answer)
             ks == ExactMatches(l.companies, name)
         IN  IF ks # {}
             THEN [cik |-> Some(l.companies[First(ks)].cik),
                   cik_cache |-> (name :> l.companies[First(ks)].cik) @@ cache,
                   company_list_cache |-> l.cache,
                   requests |-> l.requests, loaded |-> l.loaded, hit |-> FALSE]
             ELSE [cik |-> None, cik_cache |-> cache,
                   company_list_cache |-> l.cache,
                   requests |-> l.requests, loaded |-> l.loaded, hit |-> FALSE]
    ELSE LET ok == ~answer.raises /\ answer.status = 200 /\ answer.json
             ks == PartialMatches(answer.entries, name)
         IN  IF ok /\ ks # {}
             THEN [cik |-> Some(CikOf(answer.entries[First(ks)])),
                   cik_cache |->
                       (name :> CikOf(answer.entries[First(ks)])) @@ cache,
                   company_list_cache |-> list_cache,
                   requests |-> 1, loaded |-> FALSE, hit |-> FALSE]
             ELSE [cik |-> None, cik_cache |-> cache,
                   company_list_cache |-> list_cache,
                   requests |-> 1, loaded |-> FALSE, hit |-> FALSE]

\* get_company_cik looking the name up without asking cik_cache first.
GetCompanyCikUncached(kind, cache, list_cache, name, answer) ==
    LookUp(kind, cache, list_cache, name, answer)

\* get_company_cik of testingClaude.py and of CompanyData.py: the cached
\* identifier of the name, or the lookup.
get_company_cik(kind, cache, list_cache, name, answer) ==
    IF name \in DOMAIN cache
    THEN [cik |-> Some(cache[name]), cik_cache |-> cache,
          company_list_cache |-> list_cache, requests |-> 0,
          loaded |-> FALSE, hit |-> TRUE]
    ELSE LookUp(kind, cache, list_cache, name, answer)

\* common_tags of CompanyData.py.
CompanyDataCommonTags ==
    <<"Gross Profit", "Net Income", "Cash Flow", "Total Assets",
      "Total Liabilities", "Shareholders Equity">>

\* The metrics get_company_data is asked for: its default, the metrics of
\* the usage example, and a list with a metric it does not know.
MetricLists ==
    {<<"Revenue">> \o CompanyDataCommonTags,
     <<"Revenue", "Net Income", "Gross Profit">>,
     <<"Revenue", "EBITDA">>}

\* The metrics get_company_data fetches: Revenue and the common ones.
Fetched(metrics) ==
    {k \in 1..Len(metrics) :
        \/ metrics[k] = "Revenue"
        \/ \E j \in 1..Len(CompanyDataCommonTags) :
             CompanyDataCommonTags[j] = metrics[k]}

\* get_company_data going on to the metrics without a look at the cik.
GetCompanyDataUnchecked(cache, name, metrics, answer) ==
    LET c == get_company_cik("CompanyData", cache, NoList, name, answer)
    IN  [outcome |-> "results", cik |-> c.cik, cik_cache |-> c.cik_cache,
         requests |-> c.requests, hit |-> c.hit,
         fetches |-> Cardinality(Fetched(metrics))]

\* get_company_data of CompanyData.py: {"error": ...} when the name has no
\* cik, and otherwise one fetch for each metric it knows.
get_company_data(cache, name, metrics, answer) ==
    LET c == get_company_cik("CompanyData", cache, NoList, name, answer)
    IN  IF c.cik.none
        THEN [outcome |-> "error", cik |-> c.cik, cik_cache |-> c.cik_cache,
              requests |-> c.requests, hit |-> c.hit, fetches |-> 0]
        ELSE [outcome |-> "results", cik |-> c.cik,
              cik_cache |-> c.cik_cache, requests |-> c.requests,
              hit |-> c.hit, fetches |-> Cardinality(Fetched(metrics))]

\* ------------------------------------- the revenue mappings of CompanyData.py

\* MaxMapped bounds the names all the lists of the mapping hold together.
MaxMapped == 6

\* company_revenue_preferences of CompanyData.py after __init__: the items
\* of the dict, in insertion order.
CompanyDataPreferences ==
    <<[key |-> "Intel",
       list |-> <<"RevenueFromContractWithCustomerExcludingAssessedTax">>],
      [key |-> "Texas Instruments",
       list |-> <<"RevenueFromContractWithCustomerExcludingAssessedTax",
                  "SalesRevenueNet">>]>>

\* x in list
InList(x, list) == \E k \in 1..Len(list) : list[k] = x

\* get_revenue_tag_for_company of CompanyData.py: the key of the first item
\* whose list holds company_name, and "SalesRevenueNet" when no list does.
RECURSIVE get_revenue_tag_for_company(_, _)
get_revenue_tag_for_company(items, company_name) ==
    IF items = <<>> THEN "SalesRevenueNet"
    ELSE IF InList(company_name, Head(items).list) THEN Head(items).key
    ELSE get_revenue_tag_for_company(Tail(items), company_name)

\* add_revenue_mapping storing the companies in place of the list of the
\* tag.
AddRevenueMappingReplace(items, revenue_tag, companies) ==
    IF \E k \in 1..Len(items) : items[k].key = revenue_tag
    THEN [k \in 1..Len(items) |->
            IF items[k].key = revenue_tag
            THEN [items[k] EXCEPT !.list = companies]
            ELSE items[k]]
    ELSE Append(items, [key |-> revenue_tag, list |-> companies])

\* add_revenue_mapping of CompanyData.py: a new key gets an empty list at
\* the end of the dict, and the list of the key is extended.
add_revenue_mapping(items, revenue_tag, companies) ==
    LET with_key ==
          IF \E k \in 1..Len(items) : items[k].key = revenue_tag
          THEN items
          ELSE Append(items, [key |-> revenue_tag, list |-> <<>>])
    IN  [k \in 1..Len(with_key) |->
            IF with_key[k].key = revenue_tag
            THEN [with_key[k] EXCEPT !.list = @ \o companies]
            ELSE with_key[k]]

\* The names all the lists hold together.
RECURSIVE Mapped(_)
Mapped(items) ==
    IF items = <<>> THEN 0 ELSE Len(Head(items).list) + Mapped(Tail(items))

\* The companies a tag is looked up for, the tags a mapping is added for
\* and the lists of companies it is added with.
MappingCompanies == {"Intel", "Texas Instruments", "NVIDIA", "AMD"}

MappingTags ==
    {"RevenueFromContractWithCustomerExcludingAssessedTax", "Revenues"}

CompanyLists == {<<"NVIDIA">>, <<"NVIDIA", "AMD">>, <<"Intel">>}

\* ---------------------------------------- the selectors of testingClaude.py

\* A key of st.session_state: absent, None, or a string.
Absent == [key |-> "absent", str |-> <<>>]

NoneValue == [key |-> "None", str |-> <<>>]

Value(str) == [key |-> "str", str |-> str]

\* bool(value), as "or" and "not" take it
Truthy(value) == value.key = "str" /\ value.str # <<>>

\* default_companies, the options of the quick selector, in order.
QuickOptions ==
    <<Intel, Texas_Instruments,
      <<"A", "p", "p", "l", "e", " ", "I", "n", "c", ".">>,
      <<"H", "o", "n", " ", "H", "a", "i", " ", "P", "r", "e", "c", "i", "s",
        "i", "o", "n", " ", "I", "n", "d", ".", " ", "C", "o", ".", ",", " ",
        "L", "t", "d", ".">>,
      <<"M", "a", "r", "v", "e", "l", "l", " ", "T", "e", "c", "h", "n", "o",
        "l", "o", "g", "y", ",", " ", "I", "n", "c", ".">>,
      <<"T", "e", "s", "l", "a">>,
      <<"A", "m", "a", "z", "o", "n">>,
      <<"G", "o", "o", "g", "l", "e">>>>

\* st.selectbox(options=..., key=...) when the script runs: a key the
\* session does not have yet gets the first option, and a key it has keeps
\* its value, None included.
Selectbox(value, options) ==
    IF value = Absent THEN Value(options[1]) ELSE value

\* picked_quick without the reset of the full search.
PickedQuickKeepsFullSearch(session) == session

\* picked_quick, the on_change callback of the quick selector.
picked_quick(session) == [session EXCEPT !.full_search = Value(<<>>)]

\* picked_full, the on_change callback of the full search.
picked_full(session) == [session EXCEPT !.quick_select = NoneValue]

\* company = st.session_state.get("full_search")
\*           or st.session_state.get("quick_select")
EffectiveCompany(session) ==
    IF Truthy(session.full_search) THEN session.full_search
    ELSE IF session.quick_select = Absent THEN NoneValue
    ELSE session.quick_select

\* One run of the script from its top to the lookup of the cik: the two
\* selectors, the stop when the list of all companies is empty, the stop
\* when no company is selected and the stop when the company has no cik.
Script(session, cache, list_cache, answer) ==
    LET quick   == Selectbox(session.quick_select, QuickOptions)
        l       == get_company_list(list_cache, answer)
        names   == [k \in 1..Len(l.companies) |-> l.companies[k].name]
        full    == Selectbox(session.full_search, <<<<>>>> \o names)
        company == EffectiveCompany([quick_select |-> quick,
                                     full_search |-> full])
        c       == get_company_cik("testingClaude", cache, l.cache,
                                   company.str, answer)
    IN  IF l.companies = <<>>
        THEN [quick_select |-> quick, full_search |-> session.full_search,
              company_list_cache |-> l.cache, cik_cache |-> cache,
              shown |-> "no database"]
        ELSE IF ~Truthy(company)
        THEN [quick_select |-> quick, full_search |-> full,
              company_list_cache |-> l.cache, cik_cache |-> cache,
              shown |-> "select a company"]
        ELSE [quick_select |-> quick, full_search |-> full,
              company_list_cache |-> c.company_list_cache,
              cik_cache |-> c.cik_cache,
              shown |-> IF c.cik.none THEN "no cik" ELSE "dashboard"]

\* No pick has been made.
NoPick ==
    [selector |-> "", value |-> <<>>, changed |-> FALSE,
     quick_before |-> Absent]

\* ------------------------------------------------------- the state machine

VARIABLES
    app,               \* the script that runs
    source,            \* what the fact source answers for each metric
    pc,                \* where the request is
    all_data,          \* the frame build_financial_table builds and returns
    selected_quarter,  \* the quarter given to compute_changes
    changes,           \* what compute_changes returned
    raised,            \* the exception that ended the request, "" if none
    company,           \* the company whose revenue tag is resolved
    rpc,               \* where get_revenue_tag_for_company is
    probes,            \* the requests of test_tag_availability, in order
    revenue_tag,       \* the tag get_revenue_tag_for_company returned
    fetcher,           \* the script whose SECDataFetcher this is
    cik_cache,         \* its cik_cache
    company_list_cache,\* its company_list_cache
    call,              \* the last call made on it, and what it did
    previous,          \* the company and the tag of the call before this one
    preferences,       \* company_revenue_preferences of a CompanyData fetcher
    added,             \* the last add_revenue_mapping made on it
    looked_up,         \* the last get_revenue_tag_for_company made on it
    quick_select,      \* st.session_state["quick_select"]
    full_search,       \* st.session_state["full_search"]
    picked,            \* the last pick made in a selector
    shown              \* what the run of the script after the pick showed

tableVars == <<app, source, pc, all_data, selected_quarter, changes, raised>>

resolverVars == <<company, rpc, probes, revenue_tag, previous>>

directoryVars == <<fetcher, cik_cache, company_list_cache, call>>

mappingVars == <<preferences, added, looked_up>>

sessionVars == <<quick_select, full_search, picked, shown>>

vars == <<tableVars, resolverVars, directoryVars, mappingVars, sessionVars>>

\* No request for a table has been made.
TableInit ==
    /\ pc = "start"
    /\ all_data = EmptyFrame
    /\ selected_quarter = NoFrame
    /\ changes = NoChanges
    /\ raised = ""

\* There was no call before the first one.
NoPrevious == [company |-> "", revenue_tag |-> ""]

\* No revenue tag has been asked for.
ResolverInit ==
    /\ company = ""
    /\ rpc = "idle"
    /\ probes = <<>>
    /\ revenue_tag = ""
    /\ previous = NoPrevious

\* No call has been made on the fetcher.
NoCall ==
    [op |-> "", name |-> <<>>, hit |-> FALSE, before |-> None, cik |-> None,
     requests |-> 0, loaded |-> FALSE, listed |-> FALSE, companies |-> <<>>,
     outcome |-> "", probing |-> FALSE, fetches |-> 0]

\* SECDataFetcher.__init__: the caches are empty.
DirectoryInit ==
    /\ cik_cache = [n \in {} |-> <<>>]
    /\ company_list_cache = NoList
    /\ call = NoCall

\* No mapping has been added and no tag looked up.
NoAdd == [revenue_tag |-> "", companies |-> <<>>, before |-> <<>>,
          repeated |-> FALSE]

NoLookUp == [company_name |-> "", tag |-> "", in |-> <<>>]

\* SECDataFetcher.__init__ of CompanyData.py: the initial mapping.
MappingInit ==
    /\ preferences = CompanyDataPreferences
    /\ added = NoAdd
    /\ looked_up = NoLookUp

\* A new session: st.session_state has no key, nothing was picked and the
\* script has not run.
SessionInit ==
    /\ quick_select = Absent
    /\ full_search = Absent
    /\ picked = NoPick
    /\ shown = ""

Init ==
    /\ app \in Apps
    /\ source \in Sources
    /\ TableInit
    /\ ResolverInit
    /\ fetcher = "testingClaude"
    /\ DirectoryInit
    /\ MappingInit
    /\ SessionInit

\* build_financial_table up to the end of its loop: every metric fetched,
\* parsed and merged.
MergeLoop ==
    /\ pc = "start"
    /\ LET error == FetchError(app, source, Labels, 1)
       IN  IF error # ""
           THEN /\ raised' = error
                /\ pc' = "build_failed"
                /\ UNCHANGED all_data
           ELSE /\ all_data' = MergeFrom(app, source, Labels, 1, EmptyFrame)
                /\ pc' = "merged"
                /\ UNCHANGED raised
    /\ UNCHANGED <<app, source, selected_quarter, changes>>
    /\ UNCHANGED <<resolverVars, directoryVars, mappingVars, sessionVars>>

Finish(cols, sorted) ==
    IF app = "testingClaude" THEN FinishTestingClaude(cols, sorted)
    ELSE FinishFinancialData(cols, sorted)

\* The rest of build_financial_table: the empty frame returned as it is,
\* or the merged rows sorted, filtered and deduplicated.
Build ==
    /\ pc = "merged"
    /\ IF all_data.rows = <<>>
       THEN /\ all_data' = EmptyFrame
            /\ pc' = "built"
            /\ raised' = ""
       ELSE \E sorted \in SortOutcomes(all_data.rows) :
              LET out == Finish(all_data.cols, sorted)
              IN  /\ all_data' = out.table
                  /\ raised' = out.raised
                  /\ pc' = IF out.raised = "" THEN "built" ELSE "build_failed"
    /\ UNCHANGED <<app, source, selected_quarter, changes>>
    /\ UNCHANGED <<resolverVars, directoryVars, mappingVars, sessionVars>>

\* The caller's "if df.empty": no data is reported and nothing is compared.
\* testingClaude.py stops the script there and financialData.py has nothing
\* after its else branch; test.py goes on below the else branch.
NoData ==
    /\ pc = "built"
    /\ all_data.rows = <<>>
    /\ pc' = IF app = "test" THEN "warned" ELSE "stopped"
    /\ UNCHANGED <<app, source, all_data, selected_quarter, changes, raised>>
    /\ UNCHANGED <<resolverVars, directoryVars, mappingVars, sessionVars>>

\* compute_changes on the built table, for any frame label: in the run of
\* the script that built the table, and in a later run for another pick of
\* the quarter, which gets the same table.
ComputeChanges ==
    /\ pc \in {"built", "compared"}
    /\ all_data.rows # <<>>
    /\ \E q \in FrameSet :
         LET out == compute_changes(app, all_data, q)
         IN  /\ selected_quarter' = q
             /\ changes' = out
             /\ raised' = out.raised
             /\ pc' = IF out.raised = "" THEN "compared" ELSE "compare_failed"
             /\ all_data' = ComputeChangesFrame(app, all_data, q)
    /\ UNCHANGED <<app, source>>
    /\ UNCHANGED <<resolverVars, directoryVars, mappingVars, sessionVars>>

\* The section of the charts reads df['date'] and the years of the rows:
\* test.py takes min(years) and max(years) of any table, testingClaude.py
\* only when there is a year.
Section2(a, df) ==
    IF df.cols = {} THEN "KeyError"
    ELSE IF df.rows = <<>> /\ a = "test" THEN "ValueError"
    ELSE ""

\* The charts: testingClaude.py reaches them after its try / except around
\* compute_changes, test.py after the warning or after compute_changes
\* returned.
Charts ==
    /\ \/ app = "testingClaude" /\ pc \in {"compared", "compare_failed"}
       \/ app = "test" /\ pc \in {"warned", "compared"}
    /\ LET error == Section2(app, all_data)
       IN  IF error # ""
           THEN raised' = error /\ pc' = "chart_failed"
           ELSE UNCHANGED raised /\ pc' = "charted"
    /\ UNCHANGED <<app, source, all_data, selected_quarter, changes>>
    /\ UNCHANGED <<resolverVars, directoryVars, mappingVars, sessionVars>>

Next == MergeLoop \/ Build \/ NoData \/ ComputeChanges \/ Charts

Spec == Init /\ [][Next]_vars


\* ------------------------------------------- the tag resolver, step by step

\* The companies a revenue tag is asked for.
Companies == DOMAIN company_revenue_preferences \cup default_companies

\* Resolve answering a company again with the tag it returned for it in the
\* call before, without a probe.
ResolveCached ==
    /\ rpc \in {"idle", "returned"}
    /\ \E c \in Companies :
         /\ company' = c
         /\ IF rpc = "returned" /\ c = company
            THEN rpc' = "returned" /\ revenue_tag' = revenue_tag
            ELSE rpc' = "probing" /\ revenue_tag' = ""
    /\ probes' = <<>>
    /\ previous' = IF rpc = "returned"
                   THEN [company |-> company, revenue_tag |-> revenue_tag]
                   ELSE previous
    /\ UNCHANGED <<tableVars, directoryVars, mappingVars, sessionVars>>

\* get_revenue_tag_for_company is called: nothing is kept of an earlier
\* call.
Resolve ==
    /\ rpc \in {"idle", "returned"}
    /\ \E c \in Companies : company' = c
    /\ rpc' = "probing"
    /\ probes' = <<>>
    /\ revenue_tag' = ""
    /\ previous' = IF rpc = "returned"
                   THEN [company |-> company, revenue_tag |-> revenue_tag]
                   ELSE previous
    /\ UNCHANGED <<tableVars, directoryVars, mappingVars, sessionVars>>

\* One turn of its loops: the next candidate is tested; the tag is returned
\* when the test succeeds, and the final fallback after the last candidate
\* failed.
Probe ==
    /\ rpc = "probing"
    /\ \E outcome \in ProbeOutcomes :
         LET tag  == Candidates(company)[Len(probes) + 1]
             test == test_tag_availability(outcome)
         IN  /\ probes' = Append(probes, [tag |-> tag, outcome |-> outcome,
                                          available |-> test.available])
             /\ IF test.raised
                THEN rpc' = "raised" /\ revenue_tag' = ""
                ELSE IF test.available
                THEN rpc' = "returned" /\ revenue_tag' = tag
                ELSE IF Len(probes) + 1 = Len(Candidates(company))
                THEN rpc' = "returned" /\ revenue_tag' = FinalFallback
                ELSE rpc' = "probing" /\ revenue_tag' = ""
    /\ UNCHANGED <<company, previous, tableVars, directoryVars, mappingVars,
                   sessionVars>>

ResolverNext == Resolve \/ Probe

\* The resolver alone, the table flow at rest.
ResolverSpecInit ==
    /\ app = "testingClaude"
    /\ source = Source(NotFound, NotFound, NotFound, NotFound)
    /\ TableInit
    /\ ResolverInit
    /\ fetcher = "testingClaude"
    /\ DirectoryInit
    /\ MappingInit
    /\ SessionInit

ResolverSpec == ResolverSpecInit /\ [][ResolverNext]_vars


\* ---------------------------------------- the fetcher and its two caches

\* The scripts with a fetcher that looks companies up.
Fetchers == {"testingClaude", "CompanyData"}

\* The cached identifier of a name, if any.
Cached(name) ==
    IF name \in DOMAIN cik_cache THEN Some(cik_cache[name]) ELSE None

\* get_company_list() of testingClaude.py, as the selector of all companies
\* calls it.
GetCompanyList ==
    /\ fetcher = "testingClaude"
    /\ \E answer \in DirectoryAnswers :
         LET l == get_company_list(company_list_cache, answer)
         IN  /\ company_list_cache' = l.cache
             /\ call' = [NoCall EXCEPT !.op = "get_company_list",
                                       !.requests = l.requests,
                                       !.loaded = l.loaded,
                                       !.listed = TRUE,
                                       !.companies = l.companies]
    /\ UNCHANGED <<fetcher, cik_cache, tableVars, resolverVars, mappingVars,
                   sessionVars>>

\* get_company_cik(company_name), of both fetchers.
GetCompanyCik ==
    /\ \E name \in CompanyNames, answer \in DirectoryAnswers :
         LET c == get_company_cik(fetcher, cik_cache, company_list_cache,
                                  name, answer)
         IN  /\ cik_cache' = c.cik_cache
             /\ company_list_cache' = c.company_list_cache
             /\ call' = [NoCall EXCEPT !.op = "get_company_cik",
                                       !.name = name,
                                       !.hit = c.hit,
                                       !.before = Cached(name),
                                       !.cik = c.cik,
                                       !.requests = c.requests,
                                       !.loaded = c.loaded]
    /\ UNCHANGED <<fetcher, tableVars, resolverVars, mappingVars, sessionVars>>

\* get_company_data(company_name, metrics) of CompanyData.py.
GetCompanyData ==
    /\ fetcher = "CompanyData"
    /\ \E name \in CompanyNames, metrics \in MetricLists,
          answer \in DirectoryAnswers :
         LET d == get_company_data(cik_cache, name, metrics, answer)
         IN  /\ cik_cache' = d.cik_cache
             /\ call' = [NoCall EXCEPT !.op = "get_company_data",
                                       !.name = name,
                                       !.hit = d.hit,
                                       !.before = Cached(name),
                                       !.cik = d.cik,
                                       !.requests = d.requests,
                                       !.outcome = d.outcome,
                                       !.fetches = d.fetches]
    /\ UNCHANGED <<fetcher, company_list_cache, tableVars, resolverVars,
                   mappingVars, sessionVars>>

\* One run of the dashboard of testingClaude.py for a selected company, up
\* to the load of its data: the list of all companies, the cik, the revenue
\* tag and the table, which st.cache_data may hold already.
Dashboard ==
    /\ fetcher = "testingClaude"
    /\ \E name \in CompanyNames, answer \in DirectoryAnswers,
          table_cached \in BOOLEAN :
         LET l == get_company_list(company_list_cache, answer)
             c == get_company_cik(fetcher, cik_cache, l.cache, name, answer)
             run == [NoCall EXCEPT !.op = "dashboard", !.name = name,
                                   !.before = Cached(name),
                                   !.listed = TRUE,
                                   !.companies = l.companies]
         IN  IF l.companies = <<>>
             THEN /\ company_list_cache' = l.cache
                  /\ cik_cache' = cik_cache
                  /\ call' = [run EXCEPT !.requests = l.requests,
                                         !.loaded = l.loaded,
                                         !.outcome = "stopped"]
             ELSE /\ company_list_cache' = c.company_list_cache
                  /\ cik_cache' = c.cik_cache
                  /\ call' = [run EXCEPT
                        !.hit = c.hit,
                        !.cik = c.cik,
                        !.requests = l.requests + c.requests,
                        !.loaded = l.loaded \/ c.loaded,
                        !.outcome = IF c.cik.none THEN "stopped"
                                    ELSE "proceeded",
                        !.probing = ~c.cik.none,
                        !.fetches = IF c.cik.none \/ table_cached THEN 0
                                    ELSE Len(Labels)]
    /\ UNCHANGED <<fetcher, tableVars, resolverVars, mappingVars, sessionVars>>

DirectoryNext == GetCompanyList \/ GetCompanyCik \/ GetCompanyData \/ Dashboard

\* The fetchers alone, the table flow and the resolver at rest.
DirectorySpecInit ==
    /\ app = "testingClaude"
    /\ source = Source(NotFound, NotFound, NotFound, NotFound)
    /\ TableInit
    /\ ResolverInit
    /\ fetcher \in Fetchers
    /\ DirectoryInit
    /\ MappingInit
    /\ SessionInit

DirectorySpec == DirectorySpecInit /\ [][DirectoryNext]_vars


\* ------------------------------------ the revenue mapping of CompanyData.py

\* get_revenue_tag_for_company(company_name) on the fetcher.
GetRevenueTag ==
    /\ \E c \in MappingCompanies :
         looked_up' = [company_name |-> c,
                       tag |-> get_revenue_tag_for_company(preferences, c),
                       in |-> preferences]
    /\ UNCHANGED <<preferences, added>>
    /\ UNCHANGED <<tableVars, resolverVars, directoryVars, sessionVars>>

\* add_revenue_mapping(revenue_tag, companies) on the fetcher.
AddRevenueMapping ==
    /\ \E t \in MappingTags, cs \in CompanyLists :
         /\ Mapped(preferences) + Len(cs) <= MaxMapped
         /\ preferences' = add_revenue_mapping(preferences, t, cs)
         /\ added' = [revenue_tag |-> t, companies |-> cs,
                      before |-> preferences,
                      repeated |-> /\ added.revenue_tag = t
                                   /\ added.companies = cs
                                   /\ added # NoAdd]
    /\ UNCHANGED looked_up
    /\ UNCHANGED <<tableVars, resolverVars, directoryVars, sessionVars>>

MappingNext == GetRevenueTag \/ AddRevenueMapping

\* A CompanyData fetcher alone, the dashboards at rest.
MappingSpecInit ==
    /\ app = "testingClaude"
    /\ source = Source(NotFound, NotFound, NotFound, NotFound)
    /\ TableInit
    /\ ResolverInit
    /\ fetcher = "CompanyData"
    /\ DirectoryInit
    /\ MappingInit
    /\ SessionInit

MappingSpec == MappingSpecInit /\ [][MappingNext]_vars


\* ------------------------------------------ a session of testingClaude.py

\* The state of the session and of the fetcher after the script ran.
Ran(session) ==
    \E answer \in DirectoryAnswers :
      LET run == Script(session, cik_cache, company_list_cache, answer)
      IN  /\ quick_select' = run.quick_select
          /\ full_search' = run.full_search
          /\ company_list_cache' = run.company_list_cache
          /\ cik_cache' = run.cik_cache
          /\ shown' = run.shown

Session == [quick_select |-> quick_select, full_search |-> full_search]

\* The page is loaded, or the script runs again for another widget: no
\* selector changed and no callback runs.
Run ==
    /\ Ran(Session)
    /\ UNCHANGED <<picked, fetcher, call>>
    /\ UNCHANGED <<tableVars, resolverVars, mappingVars>>

\* A pick in the quick selector.  A pick of the option it shows already
\* changes nothing; another one is written to its key, picked_quick runs
\* and then the script.
PickQuick ==
    /\ shown # ""
    /\ \E v \in {QuickOptions[k] : k \in 1..Len(QuickOptions)} :
         /\ picked' = [selector |-> "quick_select", value |-> v,
                       changed |-> quick_select # Value(v),
                       quick_before |-> quick_select]
         /\ IF quick_select = Value(v)
            THEN UNCHANGED <<quick_select, full_search, shown, cik_cache,
                             company_list_cache>>
            ELSE Ran(picked_quick([Session EXCEPT !.quick_select = Value(v)]))
    /\ UNCHANGED <<fetcher, call>>
    /\ UNCHANGED <<tableVars, resolverVars, mappingVars>>

\* A pick in the full search, which is on the page when the list of all
\* companies was not empty: the empty entry or a name of the list.
PickFull ==
    /\ shown \notin {"", "no database"}
    /\ \E v \in {<<>>} \cup {company_list_cache.list[k].name :
                               k \in 1..Len(company_list_cache.list)} :
         /\ picked' = [selector |-> "full_search", value |-> v,
                       changed |-> full_search # Value(v),
                       quick_before |-> quick_select]
         /\ IF full_search = Value(v)
            THEN UNCHANGED <<quick_select, full_search, shown, cik_cache,
                             company_list_cache>>
            ELSE Ran(picked_full([Session EXCEPT !.full_search = Value(v)]))
    /\ UNCHANGED <<fetcher, call>>
    /\ UNCHANGED <<tableVars, resolverVars, mappingVars>>

SessionNext == Run \/ PickQuick \/ PickFull

\* One session of the dashboard, the other flows at rest.
SessionSpecInit ==
    /\ app = "testingClaude"
    /\ source = Source(NotFound, NotFound, NotFound, NotFound)
    /\ TableInit
    /\ ResolverInit
    /\ fetcher = "testingClaude"
    /\ DirectoryInit
    /\ MappingInit
    /\ SessionInit

SessionSpec == SessionSpecInit /\ [][SessionNext]_vars


\* ------------------------------------------------------------- properties

\* build_financial_table has returned all_data.
TableReturned ==
    pc \in {"built", "stopped", "warned", "compared", "compare_failed",
            "charted", "chart_failed"}

\* The frame labels of the rows of all_data.
TableFrames == {all_data.rows[k].frame : k \in 1..Len(all_data.rows)}

\* A label of the exact form CY<4 digits>Q<1..4>.
IsQuarterFrame(f) ==
    /\ Len(f) = 8
    /\ f[1] = "C" /\ f[2] = "Y" /\ f[7] = "Q"
    /\ \A k \in 3..6 : IsDigit(f[k])
    /\ f[8] \in {"1", "2", "3", "4"}

\* The frame as the merge loop leaves it, before any row is dropped.
Merged == MergeFrom(app, source, Labels, 1, EmptyFrame)

\* C1: every row of the table build_financial_table returns has a frame of
\* the exact form CY<4-digit year>Q<1..4>; a fact with no frame, an annual
\* frame or another frame that only contains the letter Q gives no row.
C1_OnlyQuarterFrames ==
    TableReturned => \A f \in TableFrames : IsQuarterFrame(f)

\* a is a later date than b (ISO dates <<year, month, day>>).
Later(a, b) == ToDatetime(a) > ToDatetime(b)

\* C2: when the source returns two facts of one metric and one frame with
\* different filed dates, the value the table shows for that frame and
\* metric is the value of the fact filed later, whatever the order of the
\* facts and their period ends.
C2_LaterFiledWins ==
    TableReturned =>
      \A l \in DOMAIN source :
        \A i, j \in 1..Len(source[l].usd) :
          LET a == source[l].usd[i]
              b == source[l].usd[j]
          IN  (a.frame = b.frame /\ Later(b.filed, a.filed)) =>
                \A k \in 1..Len(all_data.rows) :
                  all_data.rows[k].frame = a.frame =>
                    all_data.rows[k].cells[l] = FromInt(b.val)

Stays(r, cols) ==
    /\ NotNa(r.cells["Revenue"])
    /\ "Gross Profit" \in cols => NotNa(r.cells["Gross Profit"])

C4_GrossMarginGuarded ==
    TableReturned =>
      \A k \in 1..Len(all_data.rows) :
        LET c == all_data.rows[k].cells
            defined == NotNa(c["Gross Profit"]) /\ NotNa(c["Revenue"])
                       /\ ~IsZero(c["Revenue"])
        IN  /\ NotNa(c["Gross Margin"]) <=> defined
            /\ defined => c["Gross Margin"]
                            = FDiv(c["Gross Profit"], c["Revenue"])
            /\ ~IsInf(c["Gross Margin"])


\* ------------------------------------------------ properties of the changes

\* compute_changes has returned changes for selected_quarter.
Compared == pc = "compared"

\* The first row of the table with this label, as a sequence of at most one.
RowLabelled(label) ==
    LET ks == {k \in 1..Len(all_data.rows) : all_data.rows[k].frame = label}
    IN  IF ks = {} THEN <<>>
        ELSE <<all_data.rows[CHOOSE k \in ks : \A j \in ks : k <= j]>>

\* The four digits of a year.
Pad4(y) ==
    <<Digits[((y \div 1000) % 10) + 1], Digits[((y \div 100) % 10) + 1],
      Digits[((y \div 10) % 10) + 1], Digits[(y % 10) + 1]>>

YearOf(f) ==
    1000 * DigitVal(f[3]) + 100 * DigitVal(f[4]) + 10 * DigitVal(f[5])
    + DigitVal(f[6])

\* The quarter before a quarter frame: the digit before its last one in the
\* same year, or the fourth quarter of the year before a first quarter.
QuarterBefore(f) ==
    IF f[8] = "1" THEN <<"C", "Y">> \o Pad4(YearOf(f) - 1) \o <<"Q", "4">>
    ELSE [f EXCEPT ![8] = Digits[DigitVal(f[8])]]

\* The same quarter of the year before a quarter frame.
YearBefore(f) == <<"C", "Y">> \o Pad4(YearOf(f) - 1) \o <<"Q", f[8]>>

\* The baseline frames of the selected quarter: those of a quarter frame,
\* and otherwise the ones compute_changes derived, if it derived any.
QoQBaseline ==
    IF IsQuarterFrame(selected_quarter) THEN QuarterBefore(selected_quarter)
    ELSE changes.prev_quarter_frame

YoYBaseline ==
    IF IsQuarterFrame(selected_quarter) THEN YearBefore(selected_quarter)
    ELSE changes.prev_year_frame

\* A baseline gives no ratio for column c: its frame is not in the table, or
\* its value is null or zero.
NoBaseline(label, c) ==
    LET base == RowLabelled(label)
    IN  \/ base = <<>>
        \/ IsNaN(base[1].cells[c])
        \/ IsZero(base[1].cells[c])

\* C5: compute_changes reports the QoQ (YoY) change of a metric as "N/A"
\* whenever the QoQ (YoY) baseline frame is not in the table or the baseline
\* value of the metric is null or zero: no quotient, no infinity.
C5_DivisionGuard ==
    Compared =>
      \A c \in changes.cols :
        /\ NoBaseline(QoQBaseline, c) => changes.qoq[c] = NA
        /\ NoBaseline(YoYBaseline, c) => changes.yoy[c] = NA

\* A baseline row is in the table and holds a zero.
C5_Witness ==
    /\ Compared
    /\ \E c \in changes.cols :
         /\ RowLabelled(QoQBaseline) # <<>>
         /\ IsZero(RowLabelled(QoQBaseline)[1].cells[c])
         /\ NotNa(changes.current[c])
         /\ changes.qoq[c] = NA

\* (current - baseline) / baseline
Ratio(cur, base) == FDiv(FSub(cur, base), base)

\* The columns of the changes that hold a reported metric.
ReportedCols == changes.cols \ {"Gross Margin"}

\* C6 as stated, for the reported metrics: with the baseline frame in the
\* table and the baseline value non-null and non-zero the change is
\* (current - baseline) / baseline, and it is "N/A" in no other case.
C6_RatioUnlessNoBaseline ==
    Compared =>
      \A c \in ReportedCols :
        /\ ~NoBaseline(QoQBaseline, c) =>
             changes.qoq[c]
               = Ratio(changes.current[c], RowLabelled(QoQBaseline)[1].cells[c])
        /\ ~NoBaseline(YoYBaseline, c) =>
             changes.yoy[c]
               = Ratio(changes.current[c], RowLabelled(YoYBaseline)[1].cells[c])

\* C6 amended: with the baseline frame in the table, the baseline value
\* non-null and non-zero and the current value non-null, the change is
\* (current - baseline) / baseline, not multiplied by 100; it is "N/A"
\* exactly when the baseline frame is absent, the baseline value is null or
\* zero, or the current value is null.
C6_RatioUnlessNoBaselineOrCurrent ==
    Compared =>
      \A c \in changes.cols :
        /\ changes.qoq[c] =
             IF NoBaseline(QoQBaseline, c) \/ IsNaN(changes.current[c])
             THEN NA
             ELSE Ratio(changes.current[c],
                        RowLabelled(QoQBaseline)[1].cells[c])
        /\ changes.yoy[c] =
             IF NoBaseline(YoYBaseline, c) \/ IsNaN(changes.current[c])
             THEN NA
             ELSE Ratio(changes.current[c],
                        RowLabelled(YoYBaseline)[1].cells[c])

\* A change that is a negative ratio, and one that is "N/A" for a null
\* current value alone.
C6_Witness ==
    /\ Compared
    /\ \E c \in changes.cols :
         /\ changes.yoy[c].k = "float" /\ changes.yoy[c].n < 0
    /\ \E c \in changes.cols :
         /\ ~NoBaseline(YoYBaseline, c)
         /\ IsNaN(changes.current[c])
         /\ changes.yoy[c] = NA


\* The changes of every column against the row labelled label.
ChangesFrom(label) ==
    [c \in changes.cols |->
        IF RowLabelled(label) = <<>> THEN NA
        ELSE Change(changes.current[c], RowLabelled(label)[1].cells[c])]

\* C7: for a selected frame CY<y>Q<q>, q in 1..4, the QoQ baseline is the
\* row labelled CY<y>Q<q-1> when q > 1 and CY<y-1>Q4 when q = 1, found by
\* its label: the QoQ changes are those against that row, and all "N/A"
\* when no row has that label.
C7_QoQBaseline ==
    (Compared /\ IsQuarterFrame(selected_quarter)) =>
      /\ changes.parsed
      /\ changes.prev_quarter_frame = QuarterBefore(selected_quarter)
      /\ changes.qoq = ChangesFrom(QuarterBefore(selected_quarter))

\* A first quarter compared with the fourth quarter of the year before.
C7_Witness ==
    /\ Compared
    /\ selected_quarter = CY2020Q1
    /\ CY2019Q4 \in TableFrames
    /\ changes.qoq["Revenue"].k = "float"

\* C8: for a selected frame CY<y>Q<q>, q in 1..4, the YoY baseline is the
\* row labelled CY<y-1>Q<q>: the YoY changes are those against that row,
\* whether or not the QoQ baseline is in the table.
C8_YoYBaseline ==
    (Compared /\ IsQuarterFrame(selected_quarter)) =>
      /\ changes.parsed
      /\ changes.prev_year_frame = YearBefore(selected_quarter)
      /\ changes.yoy = ChangesFrom(YearBefore(selected_quarter))

\* A YoY change computed with no QoQ baseline in the table.
C8_Witness ==
    /\ Compared
    /\ selected_quarter = CY2020Q3
    /\ CY2019Q3 \in TableFrames
    /\ QuarterBefore(selected_quarter) \notin TableFrames
    /\ changes.yoy["Revenue"].k = "float"
    /\ changes.qoq["Revenue"] = NA

\* compute_changes has run on the table, and returned or raised.
ComputeChangesRan == pc \in {"compared", "compare_failed"}

C10_MalformedFrameAllNA ==
    (ComputeChangesRan /\ selected_quarter \in TableFrames
       /\ ~IsQuarterFrame(selected_quarter) /\ raised # "KeyError") =>
      /\ pc = "compared"
      /\ \A c \in changes.cols :
           changes.qoq[c] = NA /\ changes.yoy[c] = NA


\* ------------------------------------------- properties of the tag resolver

\* get_revenue_tag_for_company has returned revenue_tag.
Resolved == rpc = "returned"

\* The preference list of the company, empty when it has none.
PreferencesOf(c) ==
    IF c \in DOMAIN company_revenue_preferences
    THEN company_revenue_preferences[c]
    ELSE <<>>

\* The tag the i-th probe of a call is for: the i-th preference, and after
\* the preferences the global fallback tags in their order.
ExpectedTag(c, i) ==
    IF i <= Len(PreferencesOf(c)) THEN PreferencesOf(c)[i]
    ELSE default_revenue_tags[i - Len(PreferencesOf(c))]

\* C11: the probes of a call are for the company's preferences in listed
\* order and then for the global fallback tags in listed order; no probe
\* follows a successful one, and the tag returned is the tag of the first
\* successful probe.
C11_ProbeOrder ==
    /\ Len(probes) <= Len(PreferencesOf(company)) + Len(default_revenue_tags)
    /\ \A i \in 1..Len(probes) :
         /\ probes[i].tag = ExpectedTag(company, i)
         /\ i < Len(probes) => ~probes[i].available
    /\ (Resolved /\ \E i \in 1..Len(probes) : probes[i].available) =>
         revenue_tag = probes[Len(probes)].tag

\* Both preferences failed and the third fallback tag was returned.
C11_Witness ==
    /\ Resolved
    /\ company = "Texas Instruments"
    /\ Len(probes) = 5
    /\ probes[5].available
    /\ revenue_tag = "Revenues"

\* The tags a call can return.
KnownTags ==
    {default_revenue_tags[k] : k \in 1..Len(default_revenue_tags)}
    \cup {FinalFallback}
    \cup UNION {{company_revenue_preferences[c][k] :
                    k \in 1..Len(company_revenue_preferences[c])} :
                c \in DOMAIN company_revenue_preferences}

\* The number of entries of a sequence of tags that are t.
Occurrences(tags, t) == Cardinality({k \in 1..Len(tags) : tags[k] = t})

ProbedTags == [k \in 1..Len(probes) |-> probes[k].tag]

\* C12: whatever the probes give, get_revenue_tag_for_company raises nothing
\* and returns a tag; for a company without preferences every probe is for a
\* global fallback tag; and when every probe failed it returns
\* "SalesRevenueNet", each candidate probed once (each global fallback tag
\* exactly once for a company without preferences).
C12_AlwaysATag ==
    /\ rpc # "raised"
    /\ Resolved => revenue_tag \in KnownTags
    /\ company \notin DOMAIN company_revenue_preferences =>
         \A i \in 1..Len(probes) :
           Occurrences(default_revenue_tags, probes[i].tag) = 1
    /\ (Resolved /\ \A i \in 1..Len(probes) : ~probes[i].available) =>
         /\ revenue_tag = "SalesRevenueNet"
         /\ \A t \in KnownTags :
              Occurrences(ProbedTags, t)
                = Occurrences(PreferencesOf(company), t)
                  + Occurrences(default_revenue_tags, t)
         /\ company \notin DOMAIN company_revenue_preferences =>
              \A k \in 1..Len(default_revenue_tags) :
                Occurrences(ProbedTags, default_revenue_tags[k]) = 1

\* A company without preferences, every probe failed, one by an exception of
\* the transport, and the final fallback returned.
C12_Witness ==
    /\ Resolved
    /\ company = "Marvell Technology, Inc."
    /\ Len(probes) = 5
    /\ \A i \in 1..5 : ~probes[i].available
    /\ \E i \in 1..5 : probes[i].outcome = "exception"
    /\ \E i \in 1..5 : probes[i].outcome = "status"
    /\ revenue_tag = "SalesRevenueNet"

\* C17: a probe succeeds if and only if the response has a success status
\* and a body that parses; no tag other than the final fallback is returned
\* on a response whose body does not parse.
C17_ProbeNeedsParseableBody ==
    /\ \A i \in 1..Len(probes) :
         probes[i].available <=> probes[i].outcome = "json"
    /\ (Resolved /\ revenue_tag # FinalFallback) =>
         probes[Len(probes)].outcome = "json"

\* The tag a call returns for what its own probes gave: the tag of the
\* first candidate whose probe succeeded, the final fallback when none did.
TagOfProbes(c, ps) ==
    IF \E i \in 1..Len(ps) : ps[i].available
    THEN ExpectedTag(c, First({i \in 1..Len(ps) : ps[i].available}))
    ELSE "SalesRevenueNet"

\* The call is for the company of the call before it.
SecondCall == previous # NoPrevious /\ previous.company = company

\* C25: no result of a tag resolution is kept: a second
\* get_revenue_tag_for_company for the same company makes its own probes,
\* from the first candidate on, and the tag it returns is decided by the
\* outcomes of these probes alone.
C25_NoResolutionCache ==
    SecondCall =>
        /\ \A i \in 1..Len(probes) : probes[i].tag = ExpectedTag(company, i)
        /\ Resolved =>
              /\ Len(probes) >= 1
              /\ revenue_tag = TagOfProbes(company, probes)

\* The second call for a company probed three candidates and returned
\* another tag than the first call did.
C25_Witness ==
    /\ SecondCall
    /\ Resolved
    /\ Len(probes) = 3
    /\ probes[3].available
    /\ previous.revenue_tag = ExpectedTag(company, 1)
    /\ revenue_tag # previous.revenue_tag


\* ------------------------------------------ properties of the failed fetches

\* The fetch of a metric failed: the transport raised, the status is not a
\* success, or the body does not parse.
FetchFailed(l) ==
    source[l].raises \/ source[l].status # 200 \/ ~source[l].json

\* C13: whichever fetches fail, build_financial_table raises nothing and
\* returns a table, and each metric whose fetch failed is a column of that
\* table with a null in every row.
C13_FailedFetchGivesNullColumn ==
    /\ pc = "build_failed" => \A l \in DOMAIN source : ~FetchFailed(l)
    /\ TableReturned =>
         \A l \in DOMAIN source :
           FetchFailed(l) =>
             /\ all_data.rows # <<>> => l \in all_data.cols
             /\ \A k \in 1..Len(all_data.rows) :
                  IsNaN(all_data.rows[k].cells[l])


\* ------------------------------------------------ properties of the rows

\* C14: no two rows of the table build_financial_table returns have the same
\* frame label, whatever period ends the source reports for a frame and
\* however many facts of one period end and frame several metrics hold.
C14_OneRowPerFrame ==
    TableReturned =>
      \A i, j \in 1..Len(all_data.rows) :
        all_data.rows[i].frame = all_data.rows[j].frame => i = j

\* Revenue and Gross Profit each report one period end and frame twice, the
\* merge gives four rows of the frame, and the table has one.
C14_Witness ==
    /\ pc = "built"
    /\ Len(all_data.rows) = 1
    /\ Len(source["Revenue"].usd) = 2
    /\ source["Revenue"].usd[1].end = source["Revenue"].usd[2].end
    /\ source["Revenue"].usd[1].frame = source["Revenue"].usd[2].frame
    /\ Len(source["Gross Profit"].usd) = 2
    /\ source["Gross Profit"].usd[1].end = source["Gross Profit"].usd[2].end
    /\ Len(Merged.rows) = 4


\* The facts the fetch of a metric gave: none when the fetch failed.
Reported(l) == IF FetchFailed(l) THEN <<>> ELSE source[l].usd

\* A fact of the filtered series: it has a frame, and the letter Q in it.
InSeries(fact) ==
    fact.frame # <<>> /\ \E k \in 1..Len(fact.frame) : fact.frame[k] = "Q"

\* The merge loop has ended and no row has been dropped yet.
LoopEnded == pc = "merged"

\* C15: after the merge loop and before any drop, every fact of the filtered
\* series of every fetched metric has a row of its period end and frame that
\* holds its value, and a row holds a null for each metric that reported no
\* fact of the row's period end and frame.
C15_OuterJoinComplete ==
    LoopEnded =>
      /\ \A l \in DOMAIN source :
           \A i \in 1..Len(Reported(l)) :
             LET fact == Reported(l)[i]
             IN  InSeries(fact) =>
                   \E k \in 1..Len(all_data.rows) :
                     /\ all_data.rows[k].frame = fact.frame
                     /\ all_data.rows[k].date = ToDatetime(fact.end)
                     /\ all_data.rows[k].cells[l] = FromInt(fact.val)
      /\ \A k \in 1..Len(all_data.rows) :
           \A l \in DOMAIN source :
             (\A i \in 1..Len(Reported(l)) :
                ~(/\ Reported(l)[i].frame = all_data.rows[k].frame
                  /\ ToDatetime(Reported(l)[i].end) = all_data.rows[k].date))
             => IsNaN(all_data.rows[k].cells[l])

\* A frame only Gross Profit reported and a frame only Revenue reported are
\* both rows of the merged frame.
C15_Witness ==
    /\ LoopEnded
    /\ \E k \in 1..Len(all_data.rows) :
         /\ IsNaN(all_data.rows[k].cells["Revenue"])
         /\ NotNa(all_data.rows[k].cells["Gross Profit"])
    /\ \E k \in 1..Len(all_data.rows) :
         /\ NotNa(all_data.rows[k].cells["Revenue"])
         /\ IsNaN(all_data.rows[k].cells["Gross Profit"])


\* ---------------------------------------------- properties of the ordering

\* Every order of the entries of a sequence.
Reordered(seq) ==
    {[i \in 1..Len(seq) |-> seq[f[i]]] : f \in Permutations(1..Len(seq))}

\* The source with the facts of each response in another order.
Reorderings(src) ==
    {[l \in DOMAIN src |->
        [src[l] EXCEPT !.usd =
            CASE l = "Revenue" -> rev
              [] l = "Gross Profit" -> gp
              [] l = "Net Income" -> ni
              [] OTHER -> cf]] :
        rev \in Reordered(src["Revenue"].usd),
        gp \in Reordered(src["Gross Profit"].usd),
        ni \in Reordered(src["Net Income"].usd),
        cf \in Reordered(src["Cash Flow"].usd)}

\* The frames of a table with the values of their metrics.
Content(table) ==
    {[frame |-> table.rows[k].frame, cells |-> table.rows[k].cells] :
        k \in 1..Len(table.rows)}

\* The tables build_financial_table can return for a source with the metrics
\* fetched in the given order.
TablesOf(src, full_tags) ==
    LET m == MergeFrom(app, src, full_tags, 1, EmptyFrame)
    IN  IF m.rows = <<>> THEN {EmptyFrame}
        ELSE {Finish(m.cols, sorted).table : sorted \in SortOutcomes(m.rows)}

\* C16: the frames of the returned table and the value of every metric in
\* every row are the same for every order in which the metrics are fetched
\* and merged and every order of the facts within the responses.
C16_OrderIndependent ==
    pc = "built" =>
      \A full_tags \in Reordered(Labels) :
        \A src \in Reorderings(source) :
          \A table \in TablesOf(src, full_tags) :
            Content(table) = Content(all_data)


\* ------------------------------------------ properties of the empty table

\* No merged row holds a Revenue: no frame survives the drop of the rows
\* without the required metrics.
NoFrameSurvives ==
    \A k \in 1..Len(Merged.rows) : IsNaN(Merged.rows[k].cells["Revenue"])

\* build_financial_table has ended.
BuildEnded == pc \notin {"start", "merged"}

\* C18: when no frame survives the drop, or no metric gave a usable fact,
\* build_financial_table raises nothing and returns an empty table; and on
\* an empty table the caller reports that there is no data and goes no
\* further: no comparison, no chart, no access to a field of the table.
C18_EmptyTableMeansNoData ==
    /\ (BuildEnded /\ FetchError(app, source, Labels, 1) = ""
          /\ NoFrameSurvives) =>
         pc # "build_failed" /\ all_data.rows = <<>>
    /\ (TableReturned /\ all_data.rows = <<>>) =>
         pc \in {"built", "stopped", "warned"}


\* ----------------------------------------------- properties of the caches

\* One step of a fetcher keeps what its caches hold: an identifier that is
\* cached stays, a call for a cached name returns it and asks the directory
\* nothing, an identifier a call resolved is cached; and a list that is
\* cached stays, is what get_company_list returns, and is not loaded again.
CachesKept ==
    /\ \A n \in DOMAIN cik_cache :
         n \in DOMAIN cik_cache' /\ cik_cache'[n] = cik_cache[n]
    /\ (call'.op = "get_company_cik" /\ call'.name \in DOMAIN cik_cache) =>
         /\ call'.cik = Some(cik_cache[call'.name])
         /\ call'.requests = 0
    /\ ~call'.cik.none =>
         /\ call'.name \in DOMAIN cik_cache'
         /\ cik_cache'[call'.name] = call'.cik.id
    /\ ~company_list_cache.none =>
         /\ company_list_cache' = company_list_cache
         /\ ~call'.loaded
         /\ call'.listed =>
              /\ call'.companies = company_list_cache.list
              /\ call'.op = "get_company_list" => call'.requests = 0

C20_UnresolvedStops ==
    (call.op \in {"get_company_data", "dashboard"} /\ call.cik.none) =>
      /\ call.outcome = IF call.op = "get_company_data" THEN "error"
                        ELSE "stopped"
      /\ ~call.probing
      /\ call.fetches = 0
      /\ call.requests <= 1

\* get_company_data asked the directory once for a name it does not list.
C20_Witness ==
    /\ call.op = "get_company_data"
    /\ call.name = Nokia
    /\ call.cik.none
    /\ call.requests = 1
    /\ call.outcome = "error"


\* ------------------------------------ properties of the revenue mapping

\* The company is a key of the mapping.
HasEntry(items, c) == \E k \in 1..Len(items) : items[k].key = c

\* The tags the mapping lists for it.
EntryOf(items, c) ==
    items[CHOOSE k \in 1..Len(items) : items[k].key = c].list

\* C21: get_revenue_tag_for_company of CompanyData.py returns, for a company
\* with an entry in company_revenue_preferences, a tag of that entry; the
\* fallback "SalesRevenueNet" is for the companies without an entry.
C21_TagFromOwnEntry ==
    (looked_up # NoLookUp /\ HasEntry(looked_up.in, looked_up.company_name))
        => InList(looked_up.tag, EntryOf(looked_up.in, looked_up.company_name))

\* The company is no key of the mapping and in no list of it.
NoMapping(items, c) ==
    /\ ~HasEntry(items, c)
    /\ \A k \in 1..Len(items) : ~InList(c, items[k].list)

\* C27: after add_revenue_mapping(tag, companies) the lookup returns the tag
\* for every company of the list that had no mapping before, the result for
\* every company not in the list is what it was before, and after a repeat
\* of the same call every result is what it was before the repeat.
C27_AddRevenueMapping ==
    added # NoAdd =>
        \A c \in MappingCompanies :
            LET before == get_revenue_tag_for_company(added.before, c)
                after  == get_revenue_tag_for_company(preferences, c)
            IN  /\ (InList(c, added.companies) /\ NoMapping(added.before, c))
                       => after = added.revenue_tag
                /\ ~InList(c, added.companies) => after = before
                /\ added.repeated => after = before

\* A mapping was added twice in a row for a company without one, and the
\* lookup made after the repeat returned its tag.
C27_Witness ==
    /\ added.repeated
    /\ looked_up.in = preferences
    /\ InList(looked_up.company_name, added.companies)
    /\ looked_up.tag = added.revenue_tag
    /\ NoMapping(CompanyDataPreferences, looked_up.company_name)
    /\ \E c \in MappingCompanies :
         /\ ~InList(c, added.companies)
         /\ get_revenue_tag_for_company(preferences, c) # "SalesRevenueNet"


\* ------------------------------------------ properties of the repeated call

\* A step of compute_changes.
ComputeChangesCalled ==
    /\ pc \in {"built", "compared"}
    /\ pc' \in {"compared", "compare_failed"}

RemovedRows == Len(Merged.rows) - Len(all_data.rows)

\* C23: the rows of every table build_financial_table returns are in
\* non-increasing order of period end, also when the drop of the rows
\* without a required metric and the deduplication on the frame removed
\* rows.
C23_RowsByPeriodEndDescending ==
    TableReturned =>
        \A k \in 1..(Len(all_data.rows) - 1) :
            all_data.rows[k].date >= all_data.rows[k + 1].date

\* A returned table with rows of two period ends, after the drop removed
\* a row without Revenue and the deduplication a second row of a frame.
C23_Witness ==
    /\ TableReturned
    /\ Len(all_data.rows) >= 2
    /\ all_data.rows[1].date > all_data.rows[Len(all_data.rows)].date
    /\ RemovedRows >= 2
    /\ \E k \in 1..Len(Merged.rows) : IsNaN(Merged.rows[k].cells["Revenue"])
    /\ \E i, j \in 1..Len(Merged.rows) :
         /\ i # j
         /\ Merged.rows[i].frame = Merged.rows[j].frame
         /\ NotNa(Merged.rows[i].cells["Revenue"])
         /\ NotNa(Merged.rows[j].cells["Revenue"])


\* ------------------------------------------ properties of the missing column

\* C24: for every table build_financial_table returned and every frame of
\* that table compute_changes returns its three mappings and does not
\* raise, also when the table has no Net Income or Cash Flow column because
\* the fetch failed or gave no quarterly fact.
C24_NoCrashOnMissingColumn ==
    (ComputeChangesRan /\ selected_quarter \in TableFrames)
        => (raised = "" /\ pc = "compared")


\* ---------------------------------------------- properties of the selectors

\* C26: after every pick in one of the two selectors the effective company,
\* full_search or quick_select, is the company picked last; the two keys
\* never hold a company both; and a pick of the empty entry of the full
\* search leaves no company in the full search and keeps the company the
\* quick selector holds.
C26_LastPickWins ==
    picked # NoPick =>
        /\ picked.value # <<>>
              => EffectiveCompany(Session) = Value(picked.value)
        /\ picked.value = <<>> => ~Truthy(full_search)
        /\ ~(Truthy(quick_select) /\ Truthy(full_search))
        /\ (/\ picked.selector = "full_search"
            /\ picked.value = <<>>
            /\ Truthy(picked.quick_before))
              => /\ quick_select = picked.quick_before
                 /\ EffectiveCompany(Session) = picked.quick_before

\* A company was picked in the quick selector after one was picked in the
\* full search: picked_full had set quick_select to None, picked_quick
\* emptied the full search, and the company of the quick selector is the
\* effective one.
C26_Witness ==
    /\ picked.selector = "quick_select"
    /\ picked.changed
    /\ picked.quick_before = NoneValue
    /\ full_search = Value(<<>>)
    /\ quick_select = Value(picked.value)
    /\ EffectiveCompany(Session) = Value(picked.value)
    /\ shown = "no cik"

=============================================================================
